---- MODULE Spec2Model ----
(***************************************************************************)
(* Model of generate_socks5_clash_config.py: the proxy-list parser, the    *)
(* merge stage process_data and the generate_files pipeline.               *)
(*                                                                         *)
(* Python strings are sequences of one-character strings, so that strip,   *)
(* split, int() and the f-string formatting are computed, not assumed.     *)
(* Python's None is NoneStr where a string is expected, NoneType where a   *)
(* list is expected, NoConfig where a config is expected and NoError where *)
(* an error message is expected.                                           *)
(***************************************************************************)
EXTENDS Integers, Sequences, FiniteSets, TLC

VARIABLES
    proxy_file,         \* the lines of the proxy TXT file
    mapping_data,       \* the parsed mapping dict: <<key, entry>> pairs in insertion order
    proxy_list,         \* what read_proxy_file returned (NoneType before it ran)
    base_clash_config,  \* the base config object handed to process_data
    inputs0,            \* the arguments' values as they were before the first call
    results,            \* what each call of process_data returned, as seen on return
    pc,                 \* generate_files: the statement the run is at
    fs,                 \* generate_files: the state of each chosen path
    calls,              \* generate_files: the stages called in this run, in order
    written,            \* generate_files: configs handed to yaml.dump
    errors_shown,       \* generate_files: messagebox.showerror calls of this run
    runs                \* generate_files: clicks on the generate button so far

vars == <<proxy_file, mapping_data, proxy_list, base_clash_config, inputs0,
          results, pc, fs, calls, written, errors_shown, runs>>

-----------------------------------------------------------------------------
(* Bounds of the model.                                                    *)

MaxLines == 2
MaxKeys == 2
MaxCalls == 2
MaxRuns == 1

-----------------------------------------------------------------------------
(* Python values.                                                          *)

NoneStr == <<"<None>">>
NoneType == [type |-> "NoneType"]
NoConfig == [type |-> "NoneType"]
NoError == [msg |-> "None"]
PyList(items) == [type |-> "list", items |-> items]
PyDict(items) == [type |-> "dict", items |-> items]
IsList(v) == v.type = "list"

\* The characters of the model in code-point order (str comparison in sorted()).
CodePoints ==
    <<" ", "#", "+", "-", ".", "0", "1", "2", "3", "4", "5", "6", "7", "8",
      "9", ":", "P", "S", "_", "a", "b", "c", "e", "h", "i", "k", "l", "o",
      "p", "q", "r", "s", "t", "u", "v", "w", "x", "y", "z">>
Ord(c) == CHOOSE i \in 1..Len(CodePoints) : CodePoints[i] = c
Whitespace == {" "}
DigitChars == <<"0", "1", "2", "3", "4", "5", "6", "7", "8", "9">>
IsDigit(c) == \E i \in 1..Len(DigitChars) : DigitChars[i] = c
DigitVal(c) == (CHOOSE i \in 1..Len(DigitChars) : DigitChars[i] = c) - 1

\* str.strip()
RECURSIVE lstrip(_)
lstrip(s) == IF s # <<>> /\ Head(s) \in Whitespace THEN lstrip(Tail(s)) ELSE s
RECURSIVE rstrip(_)
rstrip(s) ==
    IF s # <<>> /\ s[Len(s)] \in Whitespace THEN rstrip(SubSeq(s, 1, Len(s) - 1)) ELSE s
strip(s) == rstrip(lstrip(s))

\* sep in s, and the index of its first occurrence
Contains(s, sep) == \E i \in 1..Len(s) : s[i] = sep
FirstIndex(s, sep) == CHOOSE i \in 1..Len(s) : s[i] = sep /\ \A j \in 1..(i - 1) : s[j] # sep

\* str.split(sep): every occurrence of sep splits
RECURSIVE split(_, _)
split(s, sep) ==
    IF Contains(s, sep)
    THEN LET i == FirstIndex(s, sep)
         IN  <<SubSeq(s, 1, i - 1)>> \o split(SubSeq(s, i + 1, Len(s)), sep)
    ELSE <<s>>

\* str.split(sep, 1): only the first occurrence splits
split1(s, sep) ==
    IF Contains(s, sep)
    THEN LET i == FirstIndex(s, sep)
         IN  <<SubSeq(s, 1, i - 1), SubSeq(s, i + 1, Len(s))>>
    ELSE <<s>>

\* int(s): surrounding whitespace, an optional sign, digits with single
\* underscores between them; anything else raises ValueError.
Unsigned(s) ==
    LET t == strip(s) IN IF t # <<>> /\ t[1] \in {"+", "-"} THEN Tail(t) ELSE t
ParsesAsInt(s) ==
    LET u == Unsigned(s)
    IN  /\ u # <<>>
        /\ IsDigit(u[1])
        /\ IsDigit(u[Len(u)])
        /\ \A i \in 1..Len(u) : IsDigit(u[i]) \/ u[i] = "_"
        /\ \A i \in 1..(Len(u) - 1) : ~(u[i] = "_" /\ u[i + 1] = "_")
RECURSIVE DigitsValue(_, _)
DigitsValue(u, acc) ==
    IF u = <<>> THEN acc
    ELSE IF Head(u) = "_" THEN DigitsValue(Tail(u), acc)
    ELSE DigitsValue(Tail(u), 10 * acc + DigitVal(Head(u)))
int(s) ==
    LET t == strip(s)
        v == DigitsValue(Unsigned(s), 0)
    IN  IF t[1] = "-" THEN 0 - v ELSE v

\* format(n, "02d") for n >= 0
RECURSIVE DecimalDigits(_)
DecimalDigits(n) ==
    IF n < 10 THEN <<DigitChars[n + 1]>>
    ELSE DecimalDigits(n \div 10) \o <<DigitChars[(n % 10) + 1]>>
Format02d(n) ==
    LET d == DecimalDigits(n) IN IF Len(d) < 2 THEN <<"0">> \o d ELSE d

\* a < b for str
RECURSIVE StrLess(_, _)
StrLess(a, b) ==
    IF b = <<>> THEN FALSE
    ELSE IF a = <<>> THEN TRUE
    ELSE IF Head(a) = Head(b) THEN StrLess(Tail(a), Tail(b))
    ELSE Ord(Head(a)) < Ord(Head(b))

-----------------------------------------------------------------------------
(* read_proxy_file                                                         *)

\* 'line_num': i + 1 for the 0-based enumerate index i
LineNumOff(i) == i
LineNum(i) == i + 1

\* the record appended for a valid line
ProxyRecord(parts, i) ==
    [ip |-> parts[1], port |-> parts[2], user |-> parts[3], pass |-> parts[4],
     line_num |-> LineNum(i)]

\* the loop over the file's lines, from 0-based index i on
RECURSIVE ReadLines(_, _, _)
ReadLines(lines, i, proxies) ==
    IF i >= Len(lines) THEN proxies
    ELSE LET line == strip(lines[i + 1])
         IN  IF line = <<>> \/ line[1] = "#"
             THEN ReadLines(lines, i + 1, proxies)
             ELSE LET parts == split(line, ":")
                  IN  IF Len(parts) = 4
                      THEN ReadLines(lines, i + 1, Append(proxies, ProxyRecord(parts, i)))
                      ELSE ReadLines(lines, i + 1, proxies)

read_proxy_file(lines) == ReadLines(lines, 0, <<>>)

-----------------------------------------------------------------------------
(* process_data                                                            *)

SOCKS_OUT == <<"s", "o", "c", "k", "s", "_", "o", "u", "t", "_">>
SOCKS == <<"s", "o", "c", "k", "s", "_">>
SOCKS_RELAY == <<"s", "o", "c", "k", "s", "_", "r", "e", "l", "a", "y", "_">>
SWITCH_PROXY == <<"S", "w", "i", "t", "c", "h", "-", "P", "r", "o", "x", "y">>

\* dict.get(k): None when k is no key
DictGet(d, k) == IF k \in DOMAIN d THEN d[k] ELSE NoneStr
EmptyDict == [k \in {} |-> NoneStr]

\* proxy_name = f"socks_out_{i+1:02d}" for the 0-based enumerate index i
ProxyNameZeroBased(i) == SOCKS_OUT \o Format02d(i)
ProxyName(i) == SOCKS_OUT \o Format02d(i + 1)

\* new_proxy
NewProxy(proxy_name, proxy_info) ==
    [name |-> proxy_name, type |-> "socks5", server |-> proxy_info.ip,
     port |-> int(proxy_info.port), username |-> proxy_info.user,
     password |-> proxy_info.pass, tls |-> FALSE, skip_cert_verify |-> TRUE,
     udp |-> TRUE]

\* remote_ip_to_proxy_name[proxy_info['ip']] = proxy_name
RecordIpKeepFirst(lookup, ip, proxy_name) == lookup @@ (ip :> proxy_name)
RecordIp(lookup, ip, proxy_name) == (ip :> proxy_name) @@ lookup

PortError(proxy_info) ==
    [msg |-> "proxy file line: port is not a number",
     line_num |-> proxy_info.line_num, port |-> proxy_info.port]

\* step 1, the loop over proxy_list from 0-based index i on
RECURSIVE GenerateProxies(_, _, _, _)
GenerateProxies(plist, i, generated_proxies, lookup) ==
    IF i >= Len(plist)
    THEN [error_msg |-> NoError, generated_proxies |-> generated_proxies,
          remote_ip_to_proxy_name |-> lookup]
    ELSE LET proxy_info == plist[i + 1]
             proxy_name == ProxyName(i)
         IN  IF ~ParsesAsInt(proxy_info.port)
             THEN [error_msg |-> PortError(proxy_info),
                   generated_proxies |-> generated_proxies,
                   remote_ip_to_proxy_name |-> lookup]
             ELSE GenerateProxies(plist, i + 1,
                      Append(generated_proxies, NewProxy(proxy_name, proxy_info)),
                      RecordIp(lookup, proxy_info.ip, proxy_name))

\* the list a generated section is appended to: the base's own list object
\* when it is a list, a new list otherwise
ExtendedInFront(field, generated) ==
    IF IsList(field) THEN PyList(generated \o field.items) ELSE PyList(generated)
Extended(field, generated) ==
    IF IsList(field) THEN PyList(field.items \o generated) ELSE PyList(generated)

\* sorted(mapping_data.keys(), key=int), or sorted(mapping_data.keys()) when
\* int() raises on a key; sorted() is stable
Keys(mapping) == [i \in 1..Len(mapping) |-> mapping[i][1]]
Entry(mapping, key) ==
    mapping[CHOOSE i \in 1..Len(mapping) : mapping[i][1] = key][2]
KeyLess(a, b, numeric) == IF numeric THEN int(a) < int(b) ELSE StrLess(a, b)
RECURSIVE InsertKey(_, _, _)
InsertKey(sorted, k, numeric) ==
    IF sorted = <<>> THEN <<k>>
    ELSE IF KeyLess(k, Head(sorted), numeric) THEN <<k>> \o sorted
    ELSE <<Head(sorted)>> \o InsertKey(Tail(sorted), k, numeric)
RECURSIVE Sorted(_, _)
Sorted(keys, numeric) ==
    IF keys = <<>> THEN <<>>
    ELSE InsertKey(Sorted(SubSeq(keys, 1, Len(keys) - 1), numeric), keys[Len(keys)], numeric)
sorted_mapping_keys(mapping) ==
    IF \A i \in 1..Len(mapping) : ParsesAsInt(mapping[i][1])
    THEN Sorted(Keys(mapping), TRUE)
    ELSE Sorted(Keys(mapping), FALSE)

\* target_proxy_name: the full value first, then the part before the first colon
ResolveFullOnly(lookup, socks_remote_ip) == DictGet(lookup, socks_remote_ip)
Resolve(lookup, socks_remote_ip) ==
    LET full == DictGet(lookup, socks_remote_ip)
    IN  IF full # NoneStr /\ full # <<>> THEN full
        ELSE IF Contains(socks_remote_ip, ":")
             THEN DictGet(lookup, split1(socks_remote_ip, ":")[1])
             ELSE full

NewListenerSelfLinked(key, local_port) ==
    [name |-> SOCKS \o key, type |-> "mixed", port |-> local_port,
     proxy |-> SOCKS \o key]
NewListener(key, local_port) ==
    [name |-> SOCKS \o key, type |-> "mixed", port |-> local_port,
     proxy |-> SOCKS_RELAY \o key]
NewGroupSwapped(key, target_proxy_name) ==
    [name |-> SOCKS_RELAY \o key, type |-> "relay",
     proxies |-> <<target_proxy_name, SWITCH_PROXY>>]
NewGroup(key, target_proxy_name) ==
    [name |-> SOCKS_RELAY \o key, type |-> "relay",
     proxies |-> <<SWITCH_PROXY, target_proxy_name>>]

LocalInvalid(key, socks_local) ==
    [msg |-> "mapping entry: socks_local invalid or missing", key |-> key,
     socks_local |-> socks_local]
LocalPortError(key, local_port_str) ==
    [msg |-> "mapping entry: socks_local port is not a number", key |-> key,
     port |-> local_port_str]
RemoteMissing(key) == [msg |-> "mapping entry: socks_remote missing", key |-> key]
RemoteUnresolved(key, socks_remote_ip) ==
    [msg |-> "mapping entry: socks_remote not found in the proxy file", key |-> key,
     socks_remote |-> socks_remote_ip]

\* step 2, the loop over sorted_mapping_keys
RECURSIVE GenerateMapping(_, _, _, _, _)
GenerateMapping(mapping, keys, lookup, listeners, groups) ==
    IF keys = <<>>
    THEN [error_msg |-> NoError, generated_listeners |-> listeners,
          generated_proxy_groups |-> groups]
    ELSE LET key == Head(keys)
             map_entry == Entry(mapping, key)
             socks_local == map_entry.socks_local
             socks_remote_ip == map_entry.socks_remote
             Abort(msg) == [error_msg |-> msg, generated_listeners |-> listeners,
                            generated_proxy_groups |-> groups]
         IN  IF socks_local = NoneStr \/ socks_local = <<>> \/ ~Contains(socks_local, ":")
             THEN Abort(LocalInvalid(key, socks_local))
             ELSE IF ~ParsesAsInt(split1(socks_local, ":")[2])
             THEN Abort(LocalPortError(key, split1(socks_local, ":")[2]))
             ELSE IF socks_remote_ip = NoneStr \/ socks_remote_ip = <<>>
             THEN Abort(RemoteMissing(key))
             ELSE LET target_proxy_name == Resolve(lookup, socks_remote_ip)
                  IN  IF target_proxy_name = NoneStr \/ target_proxy_name = <<>>
                      THEN Abort(RemoteUnresolved(key, socks_remote_ip))
                      ELSE GenerateMapping(mapping, Tail(keys), lookup,
                               Append(listeners,
                                      NewListener(key, int(split1(socks_local, ":")[2]))),
                               Append(groups, NewGroup(key, target_proxy_name)))

\* final_config['listeners'] = generated_listeners
ListenersMerged(base_listeners, generated_listeners) ==
    Extended(base_listeners, generated_listeners)
FinalListeners(base_listeners, generated_listeners) == PyList(generated_listeners)

\* final_config = base_clash_config.copy() is a new dict whose values are the
\* base's own objects: what a list-valued field of the base holds once
\* final_config[field].extend(generated) has run
BaseFieldAfterExtend(field, generated) ==
    IF IsList(field) THEN Extended(field, generated) ELSE field

\* process_data(mapping_data, proxy_list, base_clash_config): what it returns,
\* and the base config object as the call leaves it.  final_config['proxies']
\* and final_config['proxy-groups'] are the base's list objects whenever those
\* are lists, so extend() writes through to the base.
process_data(mapping_dict, plist, base) ==
    LET final_config == base
        mapping == mapping_dict.items
        step1 == GenerateProxies(plist.items, 0, <<>>, EmptyDict)
    IN  IF step1.error_msg # NoError
        THEN [final_config |-> NoConfig, error_msg |-> step1.error_msg, base |-> base]
        ELSE
        LET proxies == Extended(final_config.proxies, step1.generated_proxies)
            base1 == [base EXCEPT !.proxies =
                         BaseFieldAfterExtend(base.proxies, step1.generated_proxies)]
            step2 == GenerateMapping(mapping, sorted_mapping_keys(mapping),
                                     step1.remote_ip_to_proxy_name, <<>>, <<>>)
        IN  IF step2.error_msg # NoError
            THEN [final_config |-> NoConfig, error_msg |-> step2.error_msg,
                  base |-> base1]
            ELSE
            LET groups == Extended(final_config.proxy_groups,
                                   step2.generated_proxy_groups)
                base2 == [base1 EXCEPT !.proxy_groups =
                             BaseFieldAfterExtend(base.proxy_groups,
                                                  step2.generated_proxy_groups)]
            IN  [final_config |->
                     [final_config EXCEPT
                         !.proxies = proxies,
                         !.listeners = FinalListeners(final_config.listeners,
                                                      step2.generated_listeners),
                         !.proxy_groups = groups],
                 error_msg |-> NoError,
                 base |-> base2]

-----------------------------------------------------------------------------
(* The inputs the model draws from.                                        *)

\* proxy file lines: three records (two share the IP a, one is padded with
\* whitespace), a record whose port is no number, a comment, a line of
\* three fields, a blank line
LineA1 == <<"a", ":", "1", ":", "u", ":", "p">>
LineB20 == <<" ", "b", ":", "2", "0", ":", "v", ":", "q", " ">>
LineA3 == <<"a", ":", "3", ":", "w", ":", "r">>
LineBx == <<"b", ":", "x", ":", "v", ":", "q">>
LineComment == <<"#", "a", ":", "1", ":", "u", ":", "p">>
LineShort == <<"a", ":", "1", ":", "u">>
LineBlank == <<" ">>
RecordLines == {LineA1, LineB20, LineA3, LineBx}
LinePool == RecordLines \cup {LineComment, LineShort, LineBlank}
FilesOf(pool, n) == UNION {[1..k -> pool] : k \in 0..n}

\* the mapping entries: a resolvable remote, a remote given as ip:port, a
\* remote no proxy line has, a socks_local without a port
EntryA == [socks_local |-> <<"h", ":", "8", "0">>, socks_remote |-> <<"a">>]
EntryB == [socks_local |-> <<"h", ":", "8", "1">>, socks_remote |-> <<"b", ":", "9">>]
EntryC == [socks_local |-> <<"h", ":", "8", "0">>, socks_remote |-> <<"c", ":", "9">>]
EntryH == [socks_local |-> <<"h">>, socks_remote |-> <<"a">>]
PairPool ==
    { <<<<"2">>, EntryA>>, <<<<"2">>, EntryC>>,
      <<<<"1", "0">>, EntryB>>, <<<<"1", "0">>, EntryH>>,
      <<<<"0", "2">>, EntryB>>,
      <<<<"k">>, EntryA>>, <<<<"k">>, EntryC>> }
DistinctKeys(m) == \A i, j \in 1..Len(m) : m[i][1] = m[j][1] => i = j
Mappings(n) == {m \in UNION {[1..k -> PairPool] : k \in 0..n} : DistinctKeys(m)}
SingleMappings == {<<>>} \cup {<<p>> : p \in PairPool}

BaseProxy == [name |-> <<"h", "k">>, type |-> "ss"]
BaseGroup == [name |-> SWITCH_PROXY, type |-> "select", proxies |-> <<<<"h", "k">>>>]
BaseListener ==
    [name |-> <<"o", "l", "d">>, type |-> "mixed", port |-> 7, proxy |-> SWITCH_PROXY]
BasePool ==
    { [proxies |-> NoneType, proxy_groups |-> NoneType, listeners |-> NoneType,
       mode |-> "rule"],
      [proxies |-> PyList(<<BaseProxy>>), proxy_groups |-> PyList(<<BaseGroup>>),
       listeners |-> PyList(<<BaseListener>>), mode |-> "global"] }

-----------------------------------------------------------------------------
(* process_data applied to arguments drawn from the pools: the proxy file  *)
(* is read, then process_data is called, up to MaxCalls times, with the    *)
(* same three argument objects.  Spec varies the mapping table over files  *)
(* of record lines; SpecFile varies the file over every kind of line.      *)

NoFs == [chosen |-> FALSE, mapping |-> "missing", proxy |-> "missing",
         clash |-> "missing", outdir |-> "missing", mapping_content |-> <<>>,
         clash_data |-> NoneType]

Idle ==
    /\ inputs0 = base_clash_config
    /\ proxy_list = NoneType
    /\ results = <<>>
    /\ pc = "idle"
    /\ fs = NoFs
    /\ calls = <<>>
    /\ written = <<>>
    /\ errors_shown = <<>>
    /\ runs = 0

Init ==
    /\ proxy_file \in FilesOf(RecordLines, MaxLines)
    /\ mapping_data \in {PyDict(m) : m \in Mappings(MaxKeys)}
    /\ base_clash_config \in BasePool
    /\ Idle

InitFile ==
    /\ proxy_file \in FilesOf(LinePool, MaxLines)
    /\ mapping_data \in {PyDict(m) : m \in SingleMappings}
    /\ base_clash_config \in BasePool
    /\ Idle

ReadProxyFile ==
    /\ proxy_list = NoneType
    /\ proxy_list' = PyList(read_proxy_file(proxy_file))
    /\ UNCHANGED <<proxy_file, mapping_data, base_clash_config, inputs0, results,
                   pc, fs, calls, written, errors_shown, runs>>

ProcessData ==
    /\ IsList(proxy_list)
    /\ Len(results) < MaxCalls
    /\ LET r == process_data(mapping_data, proxy_list, base_clash_config)
       IN  /\ results' = Append(results,
                   [final_config |-> r.final_config, error_msg |-> r.error_msg])
           /\ base_clash_config' = r.base
    /\ UNCHANGED <<proxy_file, mapping_data, proxy_list, inputs0, pc, fs, calls,
                   written, errors_shown, runs>>

Next == ReadProxyFile \/ ProcessData

Spec == Init /\ [][Next]_vars

SpecFile == InitFile /\ [][Next]_vars

-----------------------------------------------------------------------------
(* FileProcessorApp.generate_files: one click of the generate button runs  *)
(* the stages in order; pc is the stage the run is at.                     *)

SampleFiles == {<<>>, <<LineA1>>, <<LineBx>>}
SampleMappings == {<<>>, <<<<<<"2">>, EntryA>>>>, <<<<<<"2">>, EntryC>>>>}

\* the state of the four chosen paths: each input file is missing, present but
\* rejected by its reader, or readable with some content; the output directory
\* is missing, present but not writable, or writable
FileSystems ==
    { [chosen |-> c, mapping |-> m, proxy |-> p, clash |-> k, outdir |-> o,
       mapping_content |-> mc, clash_data |-> cd] :
        c \in BOOLEAN,
        m \in {"missing", "invalid", "ok"}, p \in {"missing", "unreadable", "ok"},
        k \in {"missing", "invalid", "ok"}, o \in {"missing", "unwritable", "ok"},
        mc \in SampleMappings, cd \in BasePool \cup {NoneType} }
Canonical(f) ==
    /\ f.mapping # "ok" => f.mapping_content = <<>>
    /\ f.clash # "ok" <=> f.clash_data = NoneType

InitPipeline ==
    /\ fs \in {f \in FileSystems : Canonical(f)}
    /\ proxy_file \in (IF fs.proxy = "ok" THEN SampleFiles ELSE {<<>>})
    /\ mapping_data = NoneType
    /\ proxy_list = NoneType
    /\ base_clash_config = NoneType
    /\ inputs0 = NoneType
    /\ results = <<>>
    /\ pc = "idle"
    /\ calls = <<>>
    /\ written = <<>>
    /\ errors_shown = <<>>
    /\ runs = 0

\* except Exception as e: update_status, messagebox.showerror; finally: the
\* button is enabled again
ShowError(stage, error_msg) == Append(errors_shown, [stage |-> stage, error |-> error_msg])

\* where the run goes once a stage has returned an error_msg: raise ValueError
\* leaves the try block, so no later stage runs
StageAfterErrorContinue(next_stage) == next_stage
StageAfterError(next_stage) == "done"

\* the click: the input validation and the existence checks before the try
Click ==
    /\ pc \in {"idle", "done"}
    /\ runs < MaxRuns
    /\ runs' = runs + 1
    /\ calls' = <<>>
    /\ mapping_data' = NoneType
    /\ proxy_list' = NoneType
    /\ base_clash_config' = NoneType
    /\ results' = <<>>
    /\ IF ~fs.chosen
       THEN /\ errors_shown' = <<[stage |-> "validation", error |-> [msg |-> "not all chosen"]]>>
            /\ pc' = "done"
       ELSE IF fs.mapping = "missing" \/ fs.proxy = "missing" \/ fs.clash = "missing"
               \/ fs.outdir = "missing"
       THEN /\ errors_shown' = <<[stage |-> "validation", error |-> [msg |-> "path missing"]]>>
            /\ pc' = "done"
       ELSE /\ errors_shown' = <<>>
            /\ pc' = "read_mapping"
    /\ UNCHANGED <<proxy_file, inputs0, fs, written>>

\* mapping_data, error_msg = read_mapping_file(mapping_file)
ReadMappingStage ==
    /\ pc = "read_mapping"
    /\ calls' = Append(calls, "read_mapping_file")
    /\ IF fs.mapping = "ok"
       THEN /\ mapping_data' = PyDict(fs.mapping_content)
            /\ pc' = "read_proxy"
            /\ UNCHANGED errors_shown
       ELSE /\ errors_shown' = ShowError("read_mapping_file", [msg |-> "mapping file invalid"])
            /\ pc' = StageAfterError("read_proxy")
            /\ UNCHANGED mapping_data
    /\ UNCHANGED <<proxy_file, proxy_list, base_clash_config, inputs0, results, fs,
                   written, runs>>

\* proxy_list, error_msg = read_proxy_file(proxy_file)
ReadProxyStage ==
    /\ pc = "read_proxy"
    /\ calls' = Append(calls, "read_proxy_file")
    /\ IF fs.proxy = "ok"
       THEN /\ proxy_list' = PyList(read_proxy_file(proxy_file))
            /\ pc' = "read_clash"
            /\ UNCHANGED errors_shown
       ELSE /\ errors_shown' = ShowError("read_proxy_file", [msg |-> "proxy file unreadable"])
            /\ pc' = StageAfterError("read_clash")
            /\ UNCHANGED proxy_list
    /\ UNCHANGED <<proxy_file, mapping_data, base_clash_config, inputs0, results, fs,
                   written, runs>>

\* base_clash_config, error_msg = read_clash_config(clash_file)
ReadClashStage ==
    /\ pc = "read_clash"
    /\ calls' = Append(calls, "read_clash_config")
    /\ IF fs.clash = "ok"
       THEN /\ base_clash_config' = fs.clash_data
            /\ pc' = "process"
            /\ UNCHANGED errors_shown
       ELSE /\ errors_shown' = ShowError("read_clash_config", [msg |-> "clash config invalid"])
            /\ pc' = StageAfterError("process")
            /\ UNCHANGED base_clash_config
    /\ UNCHANGED <<proxy_file, mapping_data, proxy_list, inputs0, results, fs,
                   written, runs>>

\* final_config, error_msg = process_data(mapping_data, proxy_list, base_clash_config)
ProcessStage ==
    /\ pc = "process"
    /\ calls' = Append(calls, "process_data")
    /\ LET r == process_data(mapping_data, proxy_list, base_clash_config)
       IN  /\ results' = <<[final_config |-> r.final_config, error_msg |-> r.error_msg]>>
           /\ base_clash_config' = r.base
           /\ IF r.error_msg # NoError
              THEN /\ errors_shown' = ShowError("process_data", r.error_msg)
                   /\ pc' = StageAfterError("write")
              ELSE /\ pc' = "write"
                   /\ UNCHANGED errors_shown
    /\ UNCHANGED <<proxy_file, mapping_data, proxy_list, inputs0, fs, written, runs>>

\* success, final_path, error_msg = write_output_file(output_dir, final_config)
WriteStage ==
    /\ pc = "write"
    /\ calls' = Append(calls, "write_output_file")
    /\ IF fs.outdir = "ok"
       THEN /\ written' = Append(written, [run |-> runs, config |-> results[1].final_config])
            /\ UNCHANGED errors_shown
       ELSE /\ errors_shown' = ShowError("write_output_file", [msg |-> "write failed"])
            /\ UNCHANGED written
    /\ pc' = "done"
    /\ UNCHANGED <<proxy_file, mapping_data, proxy_list, base_clash_config, inputs0,
                   results, fs, runs>>

NextPipeline ==
    \/ Click
    \/ ReadMappingStage
    \/ ReadProxyStage
    \/ ReadClashStage
    \/ ProcessStage
    \/ WriteStage

SpecPipeline == InitPipeline /\ [][NextPipeline]_vars

-----------------------------------------------------------------------------
(* What the claims speak of, stated apart from the code's own operators.   *)

\* the first call of process_data returned, and returned a config
Returned == Len(results) >= 1
Succeeded == Returned /\ results[1].error_msg = NoError
Out == results[1].final_config

\* a valid line: non-blank, not a comment, exactly 4 colon-separated fields
Colons(t) == Cardinality({i \in 1..Len(t) : t[i] = ":"})
ValidLine(l) ==
    LET t == strip(l) IN t # <<>> /\ t[1] # "#" /\ Colons(t) = 3
ValidLineNums(file) == {j \in 1..Len(file) : ValidLine(file[j])}
\* the file position of the i-th valid line
NthValid(file, i) ==
    CHOOSE j \in ValidLineNums(file) :
        Cardinality({k \in ValidLineNums(file) : k <= j}) = i
Field(l, k) == split(strip(l), ":")[k]

\* a section's entries before the call, and the entries the call appended
ItemsOf(field) == IF IsList(field) THEN field.items ELSE <<>>
AppendedTo(before, after) == SubSeq(after.items, Len(ItemsOf(before)) + 1, Len(after.items))
OutProxies == AppendedTo(inputs0.proxies, Out.proxies)
OutGroups == AppendedTo(inputs0.proxy_groups, Out.proxy_groups)
OutListeners == Out.listeners.items

TwoDigits(i) == IF i < 10 THEN <<"0", DigitChars[i + 1]>> ELSE DecimalDigits(i)

\* C1: after read_proxy_file and a successful process_data, the proxies
\* appended are as many as the file's valid lines, and the i-th is named
\* socks_out_<i, two digits> and carries the ip, the integer port, the user
\* and the password of the i-th valid line.
C1_ProxiesFollowValidLines ==
    Succeeded =>
        LET valid == ValidLineNums(proxy_file)
        IN  /\ Len(OutProxies) = Cardinality(valid)
            /\ \A i \in 1..Len(OutProxies) :
                   LET l == proxy_file[NthValid(proxy_file, i)]
                   IN  /\ OutProxies[i].name = SOCKS_OUT \o TwoDigits(i)
                       /\ OutProxies[i].server = Field(l, 1)
                       /\ OutProxies[i].port = int(Field(l, 2))
                       /\ OutProxies[i].username = Field(l, 3)
                       /\ OutProxies[i].password = Field(l, 4)

\* a successful merge of a file with a skipped line before a valid one
C1_Witness ==
    /\ Succeeded
    /\ Len(OutProxies) >= 1
    /\ \E j \in 1..Len(proxy_file) :
           ~ValidLine(proxy_file[j]) /\ \E k \in ValidLineNums(proxy_file) : j < k

\* the valid lines whose port field is no integer
BadPortLineNums(file) == {j \in ValidLineNums(file) : ~ParsesAsInt(Field(file[j], 2))}
FirstBadPort(file) ==
    CHOOSE j \in BadPortLineNums(file) : \A k \in BadPortLineNums(file) : j <= k

\* C6: when some record's port is no integer, process_data returns no config
\* and an error naming the 1-based file line of the first such record (blank,
\* comment and skipped lines counted), and no mapping entry is processed: the
\* error is the port error whatever the mapping holds.
C6_PortErrorNamesLine ==
    (Returned /\ BadPortLineNums(proxy_file) # {}) =>
        /\ Out = NoConfig
        /\ results[1].error_msg =
               [msg |-> "proxy file line: port is not a number",
                line_num |-> FirstBadPort(proxy_file),
                port |-> Field(proxy_file[FirstBadPort(proxy_file)], 2)]

\* a bad port on line 2 behind a skipped line, with a mapping entry that
\* would itself be rejected
C6_Witness ==
    /\ Returned
    /\ BadPortLineNums(proxy_file) = {2}
    /\ ~ValidLine(proxy_file[1])
    /\ \E i \in 1..Len(mapping_data.items) : mapping_data.items[i][2] = EntryH

-----------------------------------------------------------------------------
(* The mapping side.                                                       *)

Pairs == mapping_data.items
Records == proxy_list.items
RecordIps == {Records[j].ip : j \in 1..Len(Records)}
Range(q) == {q[i] : i \in 1..Len(q)}

\* the part of s before, and after, its first colon
FirstColon(s) == CHOOSE i \in 1..Len(s) : s[i] = ":" /\ \A j \in 1..(i - 1) : s[j] # ":"
BeforeColon(s) == SubSeq(s, 1, FirstColon(s) - 1)
AfterColon(s) == SubSeq(s, FirstColon(s) + 1, Len(s))

\* the proxy IP an entry's socks_remote stands for: the full value when a
\* proxy has it, else the part before the first colon
TargetIp(socks_remote, ips) ==
    IF socks_remote \in ips \/ ~Contains(socks_remote, ":") THEN socks_remote
    ELSE BeforeColon(socks_remote)

\* C2: after a successful process_data every mapping key K has exactly one
\* listener socks_K (mixed, port = the integer after the first colon of
\* socks_local, proxy = socks_relay_K) and exactly one relay group
\* socks_relay_K (relay) with proxies [Switch-Proxy, P], P naming a generated
\* proxy whose IP is socks_remote, or its part before the first colon when
\* the full value is no proxy's IP.
C2_ListenerAndGroupPerKey ==
    Succeeded =>
        \A n \in 1..Len(Pairs) :
            LET K == Pairs[n][1]
                e == Pairs[n][2]
                ls == {i \in 1..Len(OutListeners) : OutListeners[i].name = SOCKS \o K}
                gs == {i \in 1..Len(OutGroups) : OutGroups[i].name = SOCKS_RELAY \o K}
                ips == {OutProxies[j].server : j \in 1..Len(OutProxies)}
            IN  /\ Cardinality(ls) = 1
                /\ \A i \in ls :
                       /\ OutListeners[i].type = "mixed"
                       /\ OutListeners[i].port = int(AfterColon(e.socks_local))
                       /\ OutListeners[i].proxy = SOCKS_RELAY \o K
                /\ Cardinality(gs) = 1
                /\ \A i \in gs :
                       /\ OutGroups[i].type = "relay"
                       /\ Len(OutGroups[i].proxies) = 2
                       /\ OutGroups[i].proxies[1] = SWITCH_PROXY
                       /\ \E j \in 1..Len(OutProxies) :
                              /\ OutProxies[j].name = OutGroups[i].proxies[2]
                              /\ OutProxies[j].server = TargetIp(e.socks_remote, ips)

\* a successful merge of two keys, one remote given as ip:port, over two
\* proxies of different IPs
C2_Witness ==
    /\ Succeeded
    /\ Len(Pairs) = 2
    /\ \E n \in 1..Len(Pairs) : Contains(Pairs[n][2].socks_remote, ":")
    /\ Cardinality({OutProxies[j].server : j \in 1..Len(OutProxies)}) = 2

\* the records that share their IP with another record
SharedIps == {ip \in RecordIps : Cardinality({j \in 1..Len(Records) : Records[j].ip = ip}) >= 2}
LastRecordWith(ip) ==
    CHOOSE j \in 1..Len(Records) :
        Records[j].ip = ip /\ \A k \in 1..Len(Records) : Records[k].ip = ip => k <= j

\* C3: when records share an IP, a successful process_data gives every relay
\* group whose socks_remote resolves to that IP the socks_out_NN name of the
\* last such record in file order, and every record still has its own proxy.
C3_LastRecordWins ==
    (Succeeded /\ SharedIps # {}) =>
        /\ Len(OutProxies) = Len(Records)
        /\ \A j \in 1..Len(Records) :
               /\ OutProxies[j].server = Records[j].ip
               /\ OutProxies[j].name = SOCKS_OUT \o TwoDigits(j)
        /\ \A n \in 1..Len(Pairs) :
               LET ip == TargetIp(Pairs[n][2].socks_remote, RecordIps)
               IN  ip \in SharedIps =>
                       \A i \in 1..Len(OutGroups) :
                           OutGroups[i].name = SOCKS_RELAY \o Pairs[n][1] =>
                               OutGroups[i].proxies[2] =
                                   SOCKS_OUT \o TwoDigits(LastRecordWith(ip))

\* a successful merge with an entry resolving to an IP two records share
C3_Witness ==
    /\ Succeeded
    /\ \E n \in 1..Len(Pairs) : TargetIp(Pairs[n][2].socks_remote, RecordIps) \in SharedIps
    /\ Len(OutGroups) >= 1

\* C4: a second call of process_data with the same three arguments returns
\* proxies, proxy-groups and listeners sections equal to the first call's.
C4_RerunIdentical ==
    (Len(results) >= 2 /\ results[1].error_msg = NoError) =>
        /\ results[2].error_msg = NoError
        /\ results[2].final_config.proxies = results[1].final_config.proxies
        /\ results[2].final_config.proxy_groups = results[1].final_config.proxy_groups
        /\ results[2].final_config.listeners = results[1].final_config.listeners

\* C5: once process_data has returned, with a config or with an error, the
\* base config object holds what it held before the call.
C5_BaseUnchanged == Returned => base_clash_config = inputs0

\* an entry process_data cannot resolve: socks_local is valid, socks_remote is
\* there and neither it nor its part before the first colon is a record's IP
ValidLocal(e) ==
    /\ e.socks_local # NoneStr
    /\ Contains(e.socks_local, ":")
    /\ ParsesAsInt(AfterColon(e.socks_local))
HasRemote(e) == e.socks_remote # NoneStr /\ e.socks_remote # <<>>
Unresolved(e) ==
    /\ ValidLocal(e)
    /\ HasRemote(e)
    /\ e.socks_remote \notin RecordIps
    /\ Contains(e.socks_remote, ":") => BeforeColon(e.socks_remote) \notin RecordIps
\* the mapping iteration order, and the place of the first unresolved entry
Order == sorted_mapping_keys(Pairs)
EntryAt(i) == Entry(Pairs, Order[i])
UnresolvedAt == {i \in 1..Len(Order) : Unresolved(EntryAt(i))}
FirstUnresolved == CHOOSE i \in UnresolvedAt : \A k \in UnresolvedAt : i <= k
UnresolvedError(i) ==
    [msg |-> "mapping entry: socks_remote not found in the proxy file",
     key |-> Order[i], socks_remote |-> EntryAt(i).socks_remote]

\* C7 as claimed: when some entry is unresolved, process_data returns no
\* config and the error naming the key and socks_remote of the first
\* unresolved entry in iteration order.
C7_UnresolvedNamed ==
    (Returned /\ UnresolvedAt # {}) =>
        /\ Out = NoConfig
        /\ results[1].error_msg = UnresolvedError(FirstUnresolved)

\* C7 as amended: when some entry is unresolved, process_data returns no
\* config; the error names the key and socks_remote of the first unresolved
\* entry in iteration order provided every record's port is an integer and
\* every entry before it has a valid socks_local and a socks_remote.
C7_UnresolvedNamedIfFirstFailure ==
    (Returned /\ UnresolvedAt # {}) =>
        /\ Out = NoConfig
        /\ (/\ \A j \in 1..Len(Records) : ParsesAsInt(Records[j].port)
            /\ \A i \in 1..(FirstUnresolved - 1) : ValidLocal(EntryAt(i)) /\ HasRemote(EntryAt(i)))
           => results[1].error_msg = UnresolvedError(FirstUnresolved)

\* two unresolved entries behind proxies that all parse: the error names the
\* first of them
C7_Witness ==
    /\ Returned
    /\ Cardinality(UnresolvedAt) = 2
    /\ Len(Records) >= 1
    /\ results[1].error_msg = UnresolvedError(FirstUnresolved)

\* the mapping tables holding the same key/value pairs in another order
Reorderings(m) == {q \in [1..Len(m) -> Range(m)] : Range(q) = Range(m)}
Ascending(keys, numeric) ==
    \A i \in 1..(Len(keys) - 1) : ~KeyLess(keys[i + 1], keys[i], numeric)

\* C9: the order of the generated listeners and relay groups depends on the
\* set of keys only: ascending by integer value when every key is an integer,
\* lexicographic otherwise, so that every reordering of the mapping table's
\* pairs yields the same listeners and relay groups.
C9_OrderFromKeySetOnly ==
    Succeeded =>
        /\ \A i \in 1..Len(OutListeners) : OutListeners[i].name = SOCKS \o Order[i]
        /\ Ascending(Order, \A n \in 1..Len(Pairs) : ParsesAsInt(Pairs[n][1]))
        /\ \A q \in Reorderings(Pairs) :
               LET again == process_data(PyDict(q), proxy_list, inputs0).final_config
               IN  /\ again.listeners = Out.listeners
                   /\ AppendedTo(inputs0.proxy_groups, again.proxy_groups) = OutGroups

\* C10: after a successful process_data the listeners list is exactly the
\* generated listeners, one per mapping key in iteration order, and holds no
\* listener of the base config; an empty mapping gives an empty list.
C10_ListenersReplaced ==
    Succeeded =>
        /\ Len(OutListeners) = Len(Pairs)
        /\ \A i \in 1..Len(OutListeners) :
               OutListeners[i] =
                   [name |-> SOCKS \o Order[i], type |-> "mixed",
                    port |-> int(AfterColon(EntryAt(i).socks_local)),
                    proxy |-> SOCKS_RELAY \o Order[i]]
        /\ \A l \in Range(ItemsOf(inputs0.listeners)) : l \notin Range(OutListeners)

\* a successful merge of two keys into a base config that had a listener
C10_Witness ==
    /\ Succeeded
    /\ ItemsOf(inputs0.listeners) # <<>>
    /\ Len(Pairs) = 2

\* C11: after a successful process_data the proxies list is the base config's
\* proxies, unchanged and in their order, followed by the generated proxies
\* in file order; the proxy-groups list is the base config's groups followed
\* by the generated relay groups in mapping iteration order; every other
\* top-level field has the value the base config gave it.
C11_SectionsAppended ==
    Succeeded =>
        LET base_proxies == ItemsOf(inputs0.proxies)
            base_groups == ItemsOf(inputs0.proxy_groups)
            proxies == Out.proxies.items
            groups == Out.proxy_groups.items
        IN  /\ Len(proxies) = Len(base_proxies) + Len(Records)
            /\ SubSeq(proxies, 1, Len(base_proxies)) = base_proxies
            /\ \A j \in 1..Len(Records) :
                   LET g == proxies[Len(base_proxies) + j]
                   IN  /\ g.name = SOCKS_OUT \o TwoDigits(j)
                       /\ g.server = Records[j].ip
                       /\ g.username = Records[j].user
            /\ Len(groups) = Len(base_groups) + Len(Pairs)
            /\ SubSeq(groups, 1, Len(base_groups)) = base_groups
            /\ \A i \in 1..Len(Pairs) :
                   LET g == groups[Len(base_groups) + i]
                   IN  g.name = SOCKS_RELAY \o Order[i] /\ g.type = "relay"
            /\ Out.mode = inputs0.mode

\* a successful merge of two records and two keys into a base config that
\* had a proxy and a group of its own
C11_Witness ==
    /\ Succeeded
    /\ ItemsOf(inputs0.proxies) # <<>>
    /\ ItemsOf(inputs0.proxy_groups) # <<>>
    /\ Len(Records) = 2
    /\ Len(Pairs) = 2
    /\ Order # Keys(Pairs)

\* C12: in every config a successful process_data returns, each generated
\* listener's proxy field is the name of a relay group in the output's
\* proxy-groups list, each generated relay group's second proxies entry is
\* the name of a proxy in the output's proxies list, and the generated
\* proxies' names are pairwise distinct.
C12_ReferencesResolve ==
    \A k \in 1..Len(results) :
        results[k].error_msg = NoError =>
            LET cfg == results[k].final_config
                proxies == cfg.proxies.items
                groups == cfg.proxy_groups.items
                listeners == cfg.listeners.items
                new_proxies == SubSeq(proxies, Len(proxies) - Len(Records) + 1, Len(proxies))
                new_groups == SubSeq(groups, Len(groups) - Len(Pairs) + 1, Len(groups))
            IN  /\ Len(listeners) = Len(Pairs)
                /\ \A i \in 1..Len(listeners) :
                       \E g \in 1..Len(groups) : groups[g].name = listeners[i].proxy
                /\ \A i \in 1..Len(new_groups) :
                       /\ Len(new_groups[i].proxies) = 2
                       /\ \E p \in 1..Len(proxies) :
                              proxies[p].name = new_groups[i].proxies[2]
                /\ \A i, j \in 1..Len(new_proxies) :
                       new_proxies[i].name = new_proxies[j].name => i = j

\* a successful merge with two generated proxies, two listeners and two
\* relay groups that point at different proxies
C12_Witness ==
    /\ Succeeded
    /\ Len(OutProxies) = 2
    /\ Len(OutListeners) = 2
    /\ Len(OutGroups) = 2
    /\ OutGroups[1].proxies[2] # OutGroups[2].proxies[2]

-----------------------------------------------------------------------------
(* The pipeline.                                                           *)

StageOrder ==
    <<"read_mapping_file", "read_proxy_file", "read_clash_config", "process_data",
      "write_output_file">>
IsPrefix(a, b) == Len(a) <= Len(b) /\ a = SubSeq(b, 1, Len(a))

\* a stage of this run, already called, reported an error
StageFailed(stage) ==
    CASE stage = "read_mapping_file" -> fs.mapping # "ok"
      [] stage = "read_proxy_file" -> fs.proxy # "ok"
      [] stage = "read_clash_config" -> fs.clash # "ok"
      [] stage = "process_data" -> results # <<>> /\ results[1].error_msg # NoError
      [] OTHER -> FALSE
WrittenThisRun == {i \in 1..Len(written) : written[i].run = runs}

\* C8: in one run the stages are called in the order read_mapping_file,
\* read_proxy_file, read_clash_config, process_data, write_output_file, each
\* at most once; write_output_file is called only when the four before it
\* succeeded; a stage that reports an error is the last one called, the run
\* is over, nothing is written and the error is shown exactly once.
C8_FailFastPipeline ==
    /\ IsPrefix(calls, StageOrder)
    /\ "write_output_file" \in Range(calls) =>
           /\ \A i \in 1..4 : ~StageFailed(StageOrder[i])
           /\ results # <<>> /\ results[1].final_config # NoConfig
    /\ \A i \in 1..Len(calls) :
           StageFailed(calls[i]) =>
               /\ i = Len(calls)
               /\ pc = "done"
               /\ Len(errors_shown) = 1
               /\ errors_shown[1].stage = calls[i]
               /\ WrittenThisRun = {}
    /\ \A i \in 1..Len(written) : written[i].config # NoConfig

\* a run in which process_data reported an error after three good reads
C8_Witness ==
    /\ pc = "done"
    /\ calls = SubSeq(StageOrder, 1, 4)
    /\ StageFailed("process_data")
    /\ fs.outdir = "ok"

====
